---- MODULE Spec2Model ----
(***************************************************************************)
(* Model of the yggdrasil peer tester: ingestion of peer records           *)
(* (get_peers.py), the sequential protocol sweep and the concurrent ping   *)
(* sweep (parse_peers.py: _test_endpoints, ping_peers, _ping), and the     *)
(* final ranking (parse_peers.py: main).  A second specification,          *)
(* SpecRoundTrip, runs the clear-net pattern of get_peers.py character by  *)
(* character over the text of one descriptor.                              *)
(*                                                                         *)
(* Python strings that the code parses are sequences of one-character      *)
(* strings; Peer objects live in `heap` and are referred to by their index *)
(* there, so that two list entries naming the same object are visible.     *)
(***************************************************************************)
EXTENDS Integers, Sequences, FiniteSets, TLC

VARIABLES
    pc,             \* where the run is: ingest, phase1, phase2, returned, done, raised
                    \* (SpecRoundTrip: descriptor, line, parsed)
    exc,            \* the exception that ended the run, or NoExc
    heap,           \* the Peer objects made so far; an object is its index here
    peer_list,      \* process_zip_from_url's peer_list, a list of objects
    p,              \* process_zip_from_url's local p: an object, or Unbound
    skipFile,       \* an exception has left the try block of the file being read
    text,           \* process_zip_from_url's local line: its records in Spec, its
                    \* characters in SpecRoundTrip
    endpoints,      \* the list main hands to _test_endpoints, or NoList
    curr,           \* position of the next descriptor the sweep takes
    inflight,       \* the probes called and not yet returned
    ret,            \* what the last probe returned, until the next probe is called
    log,            \* for each probe that has returned: its position, object, success
    results,        \* _test_endpoints' results list
    tasks,          \* the _ping tasks of the gather
    updated_peers,  \* what gather hands back, or NoList
    ranked          \* main's sorted results, or NoList

vars == <<pc, exc, heap, peer_list, p, skipFile, text, endpoints, curr, inflight,
          ret, log, results, tasks, updated_peers, ranked>>

\* ---------------------------------------------------------------- bounds
\* Largest number of entries ingestion puts on peer_list in a modelled run.
MaxPeers == 2
\* Longest address and longest key of the descriptors and records whose text
\* goes through the clear-net pattern.
MaxAddrLen == 3
MaxKeyLen == 2

\* ---------------------------------------------------------------- strings
S_tcp == <<"t", "c", "p">>
S_tls == <<"t", "l", "s">>
S_quic == <<"q", "u", "i", "c">>
S_ws == <<"w", "s">>
S_wss == <<"w", "s", "s">>
S_socks == <<"s", "o", "c", "k", "s">>
S_internet == <<"i", "n", "t", "e", "r", "n", "e", "t">>
S_onion == <<"o", "n", "i", "o", "n">>
S_b32i2p == <<"b", "3", "2", ".", "i", "2", "p">>
S_b32xi2p == <<"b", "3", "2", "x", "i", "2", "p">>
S_loki == <<"l", "o", "k", "i">>
S_host == <<"h">>
S_host6 == <<"[", ":", ":", "1", "]">>
S_port == <<"9", "0">>
S_empty == <<>>
S_zero == <<"0">>

Digits == {"0", "1", "2", "3", "4", "5", "6", "7", "8", "9"}

\* Python's None where a string is expected, where a list of objects is
\* expected (no object is 0) and where an exception is expected.
None == <<"None">>
NoList == <<0>>
NoExc == [type |-> "none", from |-> "none"]
\* The local p of process_zip_from_url before its first assignment.
Unbound == 0

RECURSIVE Split(_, _)
\* str.split(sep) for a one-character separator: the pieces between the
\* separators, empty pieces included.
Split(s, sep) ==
    IF \A i \in 1..Len(s) : s[i] # sep
    THEN <<s>>
    ELSE LET k == CHOOSE i \in 1..Len(s) :
                      s[i] = sep /\ \A j \in 1..(i - 1) : s[j] # sep
         IN  <<SubSeq(s, 1, k - 1)>> \o Split(SubSeq(s, k + 1, Len(s)), sep)

\* int(s) succeeds on the characters the ingestion patterns let through
\* exactly when s is a non-empty run of digits, optionally signed.
PyIntOk(s) ==
    LET body == IF Len(s) > 0 /\ s[1] = "-" THEN Tail(s) ELSE s
    IN  Len(body) > 0 /\ \A i \in 1..Len(body) : body[i] \in Digits

\* "if host[0] == '[': host = host[1:-1]"
Unbracket(host) ==
    IF host[1] = "[" THEN SubSeq(host, 2, Len(host) - 1) ELSE host

\* ---------------------------------------------------------------- Peer
Peer(proto, addr, port, key, network, proxy) ==
    [proto |-> proto, addr |-> addr, port |-> port,
     is_alive |-> FALSE, latency |-> -1, ping_latency |-> -1,
     key |-> key, network |-> network, proxy |-> proxy]

S_keysuffix == <<"?", "k", "e", "y", "=">>

\* Peer.get_uri(self, key=False)
get_uri(peer, key) ==
    IF peer.network = S_internet
    THEN LET uri == peer.proto \o <<":", "/", "/">> \o peer.addr \o <<":">>
                    \o peer.port
         IN  IF key /\ peer.key # S_empty
             THEN uri \o S_keysuffix \o peer.key
             ELSE uri
    ELSE S_socks \o <<":", "/", "/">> \o peer.proxy \o <<"/">> \o peer.addr
         \o <<".">> \o peer.network \o <<":">> \o peer.port

\* ---------------------------------------------------------------- ingestion
\* A record of a peers file, already cut into the pieces the two patterns
\* capture.  A "clear" record is <proto>://<addr>:<port>?key=<key>; a "socks"
\* record is socks://<phost>:<pport>/<addr>.<suffix>:<port>.
ClearRecords ==
    { [shape |-> "clear", proto |-> pr, addr |-> S_host, port |-> S_port,
       key |-> S_empty] : pr \in {S_tcp, S_tls, S_ws, S_wss} }
    \cup { [shape |-> "clear", proto |-> S_quic, addr |-> S_host6,
            port |-> S_port, key |-> S_empty] }

SocksRecord(phost, suffix, port) ==
    [shape |-> "socks", phost |-> phost, pport |-> S_port, addr |-> <<"a">>,
     suffix |-> suffix, port |-> port]

SocksRecords ==
    { SocksRecord(S_host, S_onion, S_port),
      SocksRecord(S_host6, S_onion, S_port),
      SocksRecord(S_host, S_b32i2p, S_empty),
      SocksRecord(S_host, S_b32xi2p, S_port),
      SocksRecord(S_host, S_loki, S_port) }

Records == ClearRecords \cup SocksRecords

\* The lines of a peers file: one or two records each.
Lines == { <<r>> : r \in Records } \cup { <<r, s>> : r, s \in Records }

\* The group (onion|b32.i2p) of the hidden-service pattern; its dot is not
\* escaped and stands for any character.
MatchesHiddenSuffix(s) ==
    \/ s = S_onion
    \/ /\ Len(s) = 7
       /\ SubSeq(s, 1, 3) = <<"b", "3", "2">>
       /\ SubSeq(s, 5, 7) = <<"i", "2", "p">>

\* compiled_regex_hidden.findall(line): the socks records of the line that
\* carry a hidden-service suffix, in order.
HiddenMatches(line) ==
    SelectSeq(line, LAMBDA r : r.shape = "socks" /\ MatchesHiddenSuffix(r.suffix))

ClearPeer(m) == Peer(m.proto, m.addr, m.port, m.key, S_internet, None)

HiddenPeer(mh) ==
    Peer(S_tcp, mh.addr, IF mh.port # S_empty THEN mh.port ELSE S_zero,
         None, mh.suffix, mh.phost \o <<":">> \o mh.pport)

RECURSIVE ProcessMatches(_, _, _)
\* The body of "for match in matches_in_line" from match k on.  st carries the
\* object store, peer_list, the local p and whether an exception has left the
\* file's try block.  Of the Peer objects the inner hidden-service loop makes,
\* only the last stays referenced, so only that one is put in the store.
ProcessMatches(line, k, st) ==
    IF k > Len(line) \/ st.raised
    THEN st
    ELSE LET m == line[k]
             mhs == HiddenMatches(line)
             made == IF m.shape = "clear"
                     THEN <<ClearPeer(m)>>
                     ELSE IF Len(mhs) > 0
                          THEN <<HiddenPeer(mhs[Len(mhs)])>>
                          ELSE <<>>
             heap1 == st.heap \o made
             p1 == IF Len(made) > 0 THEN Len(heap1) ELSE st.p
         IN  IF p1 = Unbound
             THEN [st EXCEPT !.raised = TRUE]
             ELSE ProcessMatches(line, k + 1,
                      [heap |-> heap1, list |-> Append(st.list, p1),
                       p |-> p1, raised |-> FALSE])

\* ------------------------------------------------------ clear-net pattern
\* (tcp|tls|quic|ws|wss|socks)://([a-z0-9\.\-:\[\]]+):([0-9]+)[\?key=]*([0-9a-f]*)
\* run over the characters of a line, as re.findall runs it.
Lower ==
    {"a", "b", "c", "d", "e", "f", "g", "h", "i", "j", "k", "l", "m", "n", "o",
     "p", "q", "r", "s", "t", "u", "v", "w", "x", "y", "z"}

\* [a-z0-9\.\-:\[\]]
AddrClass == Lower \cup Digits \cup {".", "-", ":", "[", "]"}

\* [\?key=] is a character class: any of the five characters, in any order.
KeyClass == {"?", "k", "e", "y", "="}

\* [0-9a-f]
HexClass == Digits \cup {"a", "b", "c", "d", "e", "f"}

\* The alternatives of the first group, in the order the pattern tries them.
Schemes == <<S_tcp, S_tls, S_quic, S_ws, S_wss, S_socks>>

\* The literal lit stands at position i of s.
StartsWith(s, i, lit) ==
    /\ i + Len(lit) - 1 <= Len(s)
    /\ SubSeq(s, i, i + Len(lit) - 1) = lit

\* A greedy run of a character class from position i: the position behind
\* the last character of the run.
RunEnd(s, i, class) ==
    CHOOSE e \in i..(Len(s) + 1) :
        /\ \A j \in i..(e - 1) : s[j] \in class
        /\ e = Len(s) + 1 \/ s[e] \notin class

\* Where the address group can end when it starts at j: inside the run of
\* address characters, with ':' and a digit behind it.
AddrEnds(s, j) ==
    { a \in j..(RunEnd(s, j, AddrClass) - 1) :
        /\ a + 2 <= Len(s)
        /\ s[a + 1] = ":"
        /\ s[a + 2] \in Digits }

AddrEnd_Lazy(s, j) ==
    CHOOSE a \in AddrEnds(s, j) : \A b \in AddrEnds(s, j) : a <= b

\* The + of the address group is greedy: the longest address that lets the
\* rest of the pattern match.
AddrEnd(s, j) ==
    CHOOSE a \in AddrEnds(s, j) : \A b \in AddrEnds(s, j) : b <= a

\* The alternatives of the first group that let the pattern match at i.
SchemesAt(s, i) ==
    { k \in 1..Len(Schemes) :
        /\ StartsWith(s, i, Schemes[k] \o <<":", "/", "/">>)
        /\ AddrEnds(s, i + Len(Schemes[k]) + 3) # {} }

\* The match of the pattern that starts at position i (SchemesAt(s, i) is
\* not empty): its four groups and the position behind it.
ClearMatchAt(s, i) ==
    LET k == CHOOSE c \in SchemesAt(s, i) : \A d \in SchemesAt(s, i) : c <= d
        j == i + Len(Schemes[k]) + 3
        a == AddrEnd(s, j)
        pe == RunEnd(s, a + 2, Digits)
        ks == RunEnd(s, pe, KeyClass)
        ke == RunEnd(s, ks, HexClass)
    IN  [shape |-> IF Schemes[k] = S_socks THEN "socks" ELSE "clear",
         proto |-> Schemes[k],
         addr |-> SubSeq(s, j, a),
         port |-> SubSeq(s, a + 2, pe - 1),
         key |-> SubSeq(s, ks, ke - 1),
         end |-> ke]

RECURSIVE FindAllFrom(_, _)
\* compiled_regex.findall(line): the matches from left to right, each search
\* starting behind the previous match.
FindAllFrom(s, i) ==
    IF i > Len(s) THEN <<>>
    ELSE IF SchemesAt(s, i) = {} THEN FindAllFrom(s, i + 1)
    ELSE LET m == ClearMatchAt(s, i)
         IN  <<[shape |-> m.shape, proto |-> m.proto, addr |-> m.addr,
                port |-> m.port, key |-> m.key]>> \o FindAllFrom(s, m.end)

NoRet == [kind |-> "none"]

ingestVars == <<peer_list, p, skipFile, text>>
sweepVars == <<curr, inflight, ret, log, results>>
pingVars == <<tasks, updated_peers>>

Init ==
    /\ pc = "ingest"
    /\ heap = <<>>
    /\ peer_list = <<>>
    /\ p = Unbound
    /\ skipFile = FALSE
    /\ text = <<>>
    /\ endpoints = NoList
    /\ curr = 1
    /\ inflight = {}
    /\ ret = NoRet
    /\ log = <<>>
    /\ exc = NoExc
    /\ results = <<>>
    /\ tasks = <<>>
    /\ updated_peers = NoList
    /\ ranked = NoList

\* One line of the file being read goes through the two patterns.
IngestLine ==
    /\ pc = "ingest"
    /\ ~skipFile
    /\ \E line \in Lines :
          LET st == ProcessMatches(line, 1,
                        [heap |-> heap, list |-> peer_list, p |-> p,
                         raised |-> FALSE])
          IN  /\ Len(st.list) <= MaxPeers
              /\ heap' = st.heap
              /\ peer_list' = st.list
              /\ p' = st.p
              /\ skipFile' = st.raised
              /\ text' = line
    /\ UNCHANGED <<pc, exc, endpoints, sweepVars, pingVars, ranked>>

\* The walk moves on to the next file; an exception in the previous file
\* skipped the rest of that file only.
NextFile ==
    /\ pc = "ingest"
    /\ skipFile
    /\ skipFile' = FALSE
    /\ UNCHANGED <<pc, exc, heap, peer_list, p, text, endpoints, sweepVars,
                   pingVars, ranked>>

\* main up to the first iteration of the sweep: get_peers() hands back the
\* list, or None when it is empty, and _test_endpoints takes len() of it.
MainStart ==
    /\ pc = "ingest"
    /\ endpoints' = IF peer_list # <<>> THEN peer_list ELSE NoList
    /\ IF peer_list # <<>>
       THEN pc' = "phase1" /\ UNCHANGED exc
       ELSE pc' = "raised" /\ exc' = [type |-> "TypeError", from |-> "_test_endpoints"]
    /\ text' = <<>>
    /\ UNCHANGED <<heap, peer_list, p, skipFile, sweepVars, pingVars, ranked>>

\* ---------------------------------------------------------------- phase 1
ProbeTimeout == 5
HiddenTimeout == 30

\* Elapsed wall-clock time of a probe in microseconds.
ElapsedMicros == {20400}

LatencyMs_FromSentinel(us) == -1 - us \div 1000

\* int((end_time - start_time) * 1000), the times being seconds.
LatencyMs(us) == us \div 1000

\* The if/elif chain of _test_endpoints that picks the probe.
Dispatch(peer) ==
    IF peer.network \in {S_onion, S_b32i2p} THEN "hidden"
    ELSE IF peer.proto = S_tcp THEN "tcp"
    ELSE IF peer.proto = S_tls THEN "tls"
    ELSE IF peer.proto \in {S_ws, S_wss} THEN "ws"
    ELSE IF peer.proto = S_quic THEN "quic"
    ELSE "unsupported"

\* Where the probe's network call runs: tcp and tls go through
\* loop.run_in_executor, the hidden-service probe is called directly from the
\* coroutine, ws and quic are awaited on the loop.
ProbeThread(kind) == IF kind \in {"tcp", "tls"} THEN "worker" ELSE "loop"

\* The probes whose network call is a blocking one: socket.create_connection,
\* wrap_socket, socksocket.connect.
ProbeBlocking(kind) == kind \in {"tcp", "tls", "hidden"}

\* The exceptions the network call of each probe can end with.
ProbeErrors(kind) ==
    CASE kind = "tcp" -> {"ConnectionRefusedError", "timeout"}
      [] kind = "tls" -> {"ConnectionRefusedError", "SSLError"}
      [] kind = "ws" -> {"OSError", "TimeoutError"}
      [] kind = "quic" -> {"ConnectionError"}
      [] kind = "hidden" -> {"ProxyConnectionError", "GeneralProxyError",
                             "timeout", "Exception"}
      [] OTHER -> {}

Attempt(family, timeout) ==
    [family |-> family, timeout |-> timeout, outcome |-> "pending"]

\* The probe call of one iteration, up to the point where it waits for the
\* network.
NewProbe(idx, obj, peer, timeout) ==
    LET kind == Dispatch(peer)
        host == Unbracket(peer.addr)
    IN  [kind |-> kind, idx |-> idx, obj |-> obj,
         thread |-> ProbeThread(kind), blocking |-> ProbeBlocking(kind),
         target |-> CASE kind = "hidden" -> host \o <<".">> \o peer.network
                      [] kind = "ws" -> get_uri(peer, FALSE)
                      [] OTHER -> host,
         port |-> peer.port,
         timeout |-> IF kind = "hidden" THEN HiddenTimeout ELSE timeout,
         attempts |-> IF kind = "ws" THEN <<Attempt(6, timeout)>> ELSE <<>>,
         sock |-> IF kind = "hidden" THEN "open" ELSE "none"]

\* proxy.split(':')[1] handed to int(), which _test_hidden_service does before
\* its try block.
ProxyPortParses(proxy) == PyIntOk(Split(proxy, ":")[2])

\* str.upper() on the letters of the two WebSocket schemes.
Upper(s) ==
    [i \in 1..Len(s) |-> CASE s[i] = "w" -> "W" [] s[i] = "s" -> "S" [] OTHER -> s[i]]

\* proto = uri.split(":", 1)[0].upper() of _test_websocket_async
WsProto(uri) == Upper(Split(uri, ":")[1])

OkMessage(pr) ==
    [text |-> CASE pr.kind = "tcp" -> "Successfully connected via TCP"
                [] pr.kind = "tls" -> "Successfully connected via TLS"
                [] pr.kind = "ws" -> "Successfully connected via"
                [] pr.kind = "quic" -> "Successfully established QUIC connection"
                [] OTHER -> "Success! Connection was successful",
     via |-> IF pr.kind = "ws" THEN WsProto(pr.target) ELSE <<>>,
     target |-> pr.target, detail |-> ""]

FailMessage_TimeoutAsFailure(pr, e) ==
    [text |-> IF e = "ProxyConnectionError"
              THEN "Proxy Error: Could not connect to the proxy"
              ELSE "Failure: Could not reach the hidden service",
     via |-> <<>>, target |-> pr.target,
     detail |-> IF e = "timeout" THEN "" ELSE e]

\* The message of a probe that failed with exception e: the except branches
\* of the probes.
FailMessage(pr, e) ==
    [text |-> CASE pr.kind = "tcp" -> "Failed TCP connection"
                [] pr.kind = "tls" -> "Failed TLS connection"
                [] pr.kind = "ws" -> "Failed connection"
                [] pr.kind = "quic" -> "Failed QUIC connection"
                [] pr.kind = "hidden" /\ e = "ProxyConnectionError" ->
                       "Proxy Error: Could not connect to the proxy"
                [] pr.kind = "hidden" /\ e = "GeneralProxyError" ->
                       "Failure: Could not reach the hidden service"
                [] pr.kind = "hidden" /\ e = "timeout" ->
                       "Timeout: Connection timed out"
                [] pr.kind = "hidden" -> "An unexpected error occurred"
                [] OTHER -> "Unsupported protocol",
     via |-> IF pr.kind = "ws" THEN WsProto(pr.target) ELSE <<>>,
     target |-> pr.target,
     detail |-> IF pr.kind = "hidden" /\ e = "timeout" THEN "" ELSE e]

\* The attempt of pr that is waiting for the network gets its outcome.
Settled(pr, outcome) ==
    IF pr.attempts = <<>> THEN pr
    ELSE [pr EXCEPT !.attempts[Len(pr.attempts)].outcome = outcome]

SockAtReturn_Leaks(pr) == pr.sock

\* The finally block of _test_hidden_service: "if 's' in locals(): s.close()"
\* runs behind the return of the try block and of every except branch.
SockAtReturn(pr) == IF pr.sock = "open" THEN "closed" ELSE pr.sock

\* What the loop body does once the probe has returned (success, message).
Conclude(pr, success, message, us, e) ==
    /\ ret' = [kind |-> pr.kind, idx |-> pr.idx, obj |-> pr.obj,
               success |-> success, message |-> message,
               attempts |-> pr.attempts, error |-> e,
               sock |-> SockAtReturn(pr)]
    /\ log' = Append(log, [idx |-> pr.idx, obj |-> pr.obj, success |-> success])
    /\ inflight' = inflight \ {q \in inflight : q.idx = pr.idx}
    /\ IF success
       THEN /\ heap' = [heap EXCEPT ![pr.obj].is_alive = TRUE,
                                    ![pr.obj].latency = LatencyMs(us)]
            /\ results' = Append(results, pr.obj)
       ELSE UNCHANGED <<heap, results>>

LoopResumed_NoAwait == TRUE

\* Each probe call of the loop body is awaited (or is a plain call): the loop
\* goes on to the next descriptor only when no probe is outstanding.
LoopResumed == inflight = {}

\* The loop takes the next descriptor and calls its probe.
StartProbe ==
    /\ pc = "phase1"
    /\ LoopResumed
    /\ curr <= Len(endpoints)
    /\ curr' = curr + 1
    /\ LET obj == endpoints[curr]
           peer == heap[obj]
           pr == NewProbe(curr, obj, peer, ProbeTimeout)
       IN  IF pr.kind = "hidden" /\ ~ProxyPortParses(peer.proxy)
           THEN /\ pc' = "raised"
                /\ exc' = [type |-> "ValueError", from |-> "_test_hidden_service"]
                /\ ret' = NoRet
                /\ UNCHANGED <<inflight, log, heap, results>>
           ELSE IF pr.kind = "unsupported"
           THEN /\ Conclude(pr, FALSE, FailMessage(pr, ""), 0, "")
                /\ UNCHANGED <<pc, exc>>
           ELSE /\ inflight' = inflight \cup {pr}
                /\ ret' = NoRet
                /\ UNCHANGED <<pc, exc, log, heap, results>>
    /\ UNCHANGED <<ingestVars, endpoints, pingVars, ranked>>

\* The network call of a probe in flight succeeds.
ProbeSucceeds ==
    /\ pc = "phase1"
    /\ \E pr \in inflight, us \in ElapsedMicros :
          Conclude(Settled(pr, "ok"), TRUE, OkMessage(pr), us, "")
    /\ UNCHANGED <<pc, exc, ingestVars, endpoints, curr, pingVars, ranked>>

WsFallsBack_Never(pr) == FALSE

\* _test_websocket_async answers a failure of its IPv6 attempt with an IPv4
\* attempt; no other probe tries again.
WsFallsBack(pr) ==
    /\ pr.kind = "ws"
    /\ pr.attempts[Len(pr.attempts)].family = 6

\* The network call of a probe in flight ends with an exception.
ProbeFails ==
    /\ pc = "phase1"
    /\ \E pr \in inflight : \E e \in ProbeErrors(pr.kind) :
          IF WsFallsBack(pr)
          THEN /\ inflight' = (inflight \ {pr}) \cup
                     {[Settled(pr, "fail") EXCEPT
                          !.attempts = Append(@, Attempt(4, pr.timeout))]}
               /\ UNCHANGED <<ret, log, heap, results>>
          ELSE Conclude(Settled(pr, "fail"), FALSE, FailMessage(pr, e), 0, e)
    /\ UNCHANGED <<pc, exc, ingestVars, endpoints, curr, pingVars, ranked>>

\* ---------------------------------------------------------------- phase 2
PingTimeout == 10
PingCount == 3
OverlayPing == 60000

\* result.avg_rtt of a ping that got a reply, in microseconds.
RttMicros == {15900}

\* int(result.avg_rtt), avg_rtt being milliseconds.
PingMs(us) == us \div 1000

\* One call of async_ping and how it ended: "reply" with the average
\* round-trip time, "noreply" (result.is_alive is false) or "error" (the call
\* raised: name resolution, no permission for raw sockets).
PingAttempt(host, family) ==
    [host |-> host, family |-> family, count |-> PingCount,
     timeout |-> PingTimeout, outcome |-> "pending", rtt |-> -1]

PingFailures == {"noreply", "error"}

\* Task t returns while a task handed to gather before it has not returned.
Overtakes(t) == \E u \in 1..(t - 1) : tasks[u].state # "done"

NewTasks_AllEndpoints(peers) ==
    [t \in 1..Len(endpoints) |->
        [obj |-> endpoints[t], state |-> "ready", attempts |-> <<>>,
             overtook |-> FALSE]]

\* ping_peers: one _ping coroutine per live peer of the list, handed to
\* asyncio.gather.
NewTasks(peers) ==
    LET live == SelectSeq(peers, LAMBDA o : heap[o].is_alive = TRUE)
    IN  [t \in 1..Len(live) |->
            [obj |-> live[t], state |-> "ready", attempts |-> <<>>,
             overtook |-> FALSE]]

\* The for loop is over and _test_endpoints calls ping_peers(results).
Phase2Start ==
    /\ pc = "phase1"
    /\ LoopResumed
    /\ curr > Len(endpoints)
    /\ tasks' = NewTasks(results)
    /\ pc' = "phase2"
    /\ ret' = NoRet
    /\ UNCHANGED <<exc, heap, ingestVars, endpoints, curr, inflight, log,
                   results, updated_peers, ranked>>

PingSkipped_KnownOverlays(peer) == peer.network \in {S_onion, S_b32i2p}

\* "if peer.network != 'internet'" of _ping.
PingSkipped(peer) == peer.network # S_internet

\* _ping up to its first await.  The loop starts the tasks of a gather in the
\* order it was given them.
PingBegin(t) ==
    /\ pc = "phase2"
    /\ tasks[t].state = "ready"
    /\ \A u \in 1..(t - 1) : tasks[u].state # "ready"
    /\ LET peer == heap[tasks[t].obj]
       IN  IF PingSkipped(peer)
           THEN /\ heap' = [heap EXCEPT ![tasks[t].obj].ping_latency = OverlayPing]
                /\ tasks' = [tasks EXCEPT ![t].state = "done",
                                             ![t].overtook = Overtakes(t)]
           ELSE /\ tasks' = [tasks EXCEPT
                                ![t].state = "wait",
                                ![t].attempts = <<PingAttempt(Unbracket(peer.addr), 6)>>]
                /\ UNCHANGED heap
    /\ UNCHANGED <<pc, exc, ingestVars, endpoints, sweepVars, updated_peers,
                   ranked>>

\* async_ping of task t comes back with a reply.
PingReplies(t) ==
    /\ pc = "phase2"
    /\ tasks[t].state = "wait"
    /\ \E us \in RttMicros :
          /\ heap' = [heap EXCEPT ![tasks[t].obj].ping_latency = PingMs(us)]
          /\ tasks' = [tasks EXCEPT
                           ![t].state = "done", ![t].overtook = Overtakes(t),
                           ![t].attempts[Len(tasks[t].attempts)].outcome = "reply",
                           ![t].attempts[Len(tasks[t].attempts)].rtt = us]
    /\ UNCHANGED <<pc, exc, ingestVars, endpoints, sweepVars, updated_peers,
                   ranked>>

PingFallsBack_Always(task) == TRUE

\* The IPv4 call of _ping sits in the except branch of the IPv6 call; the
\* branches behind the IPv4 call return.
PingFallsBack(task) == task.attempts[Len(task.attempts)].family = 6

\* The attempts of a task with its pending attempt ended as a failure.
FailedAttempts(task, how) ==
    [task.attempts EXCEPT ![Len(task.attempts)].outcome = how]

PingFails_WritesTimeout(t) ==
    /\ pc = "phase2"
    /\ tasks[t].state = "wait"
    /\ \E how \in PingFailures :
          IF PingFallsBack(tasks[t])
          THEN /\ tasks' = [tasks EXCEPT
                               ![t].attempts = Append(FailedAttempts(tasks[t], how),
                                   PingAttempt(Unbracket(heap[tasks[t].obj].addr), 4))]
               /\ UNCHANGED heap
          ELSE /\ tasks' = [tasks EXCEPT
                               ![t].state = "done", ![t].overtook = Overtakes(t),
                               ![t].attempts = FailedAttempts(tasks[t], how)]
               /\ heap' = [heap EXCEPT
                              ![tasks[t].obj].ping_latency = PingTimeout * 1000]
    /\ UNCHANGED <<pc, exc, ingestVars, endpoints, sweepVars, updated_peers,
                   ranked>>

\* async_ping of task t raises or reports no reply: after the IPv6 attempt
\* the IPv4 attempt follows, after the IPv4 attempt _ping returns the peer
\* as it is.
PingFails(t) ==
    /\ pc = "phase2"
    /\ tasks[t].state = "wait"
    /\ \E how \in PingFailures :
          IF PingFallsBack(tasks[t])
          THEN tasks' = [tasks EXCEPT
                            ![t].attempts = Append(FailedAttempts(tasks[t], how),
                                PingAttempt(Unbracket(heap[tasks[t].obj].addr), 4))]
          ELSE tasks' = [tasks EXCEPT
                            ![t].state = "done", ![t].overtook = Overtakes(t),
                            ![t].attempts = FailedAttempts(tasks[t], how)]
    /\ UNCHANGED <<pc, exc, heap, ingestVars, endpoints, sweepVars,
                   updated_peers, ranked>>

GatherDone_FirstCompleted ==
    tasks = <<>> \/ \E t \in 1..Len(tasks) : tasks[t].state = "done"

\* "await asyncio.gather(*tasks)": the awaiting coroutine goes on when every
\* task of the batch has finished.
GatherDone == \A t \in 1..Len(tasks) : tasks[t].state = "done"

GatherResult_AsCompleted ==
    [t \in 1..Len(tasks) |-> tasks[Len(tasks) + 1 - t].obj]

\* What gather resolves to: the values the tasks returned, in the order the
\* awaitables were passed.
GatherResult == [t \in 1..Len(tasks) |-> tasks[t].obj]

\* gather hands back the peers the tasks returned, in task order, and
\* _test_endpoints returns them.
Phase2Return ==
    /\ pc = "phase2"
    /\ GatherDone
    /\ updated_peers' = GatherResult
    /\ pc' = "returned"
    /\ UNCHANGED <<exc, heap, ingestVars, endpoints, sweepVars, tasks, ranked>>

\* ---------------------------------------------------------------- ranking
RECURSIVE InsertByPing_Unstable(_, _)
InsertByPing_Unstable(sorted, o) ==
    IF sorted = <<>> THEN <<o>>
    ELSE IF heap[sorted[Len(sorted)]].ping_latency < heap[o].ping_latency
         THEN Append(sorted, o)
         ELSE Append(InsertByPing_Unstable(SubSeq(sorted, 1, Len(sorted) - 1), o),
                     sorted[Len(sorted)])

RECURSIVE InsertByPing(_, _)
\* o goes behind every entry whose key is not larger: the sort is stable.
InsertByPing(sorted, o) ==
    IF sorted = <<>> THEN <<o>>
    ELSE IF heap[sorted[Len(sorted)]].ping_latency <= heap[o].ping_latency
         THEN Append(sorted, o)
         ELSE Append(InsertByPing(SubSeq(sorted, 1, Len(sorted) - 1), o),
                     sorted[Len(sorted)])

RECURSIVE SortedByPing(_)
\* sorted(results, key=lambda peer: getattr(peer, "ping_latency"))
SortedByPing(s) ==
    IF s = <<>> THEN <<>>
    ELSE InsertByPing(SortedByPing(SubSeq(s, 1, Len(s) - 1)), s[Len(s)])

\* main sorts what _test_endpoints returned.
Rank ==
    /\ pc = "returned"
    /\ ranked' = SortedByPing(updated_peers)
    /\ pc' = "done"
    /\ UNCHANGED <<exc, heap, ingestVars, endpoints, sweepVars, pingVars>>

Next ==
    \/ IngestLine
    \/ NextFile
    \/ MainStart
    \/ StartProbe
    \/ ProbeSucceeds
    \/ ProbeFails
    \/ Phase2Start
    \/ \E t \in 1..Len(tasks) : PingBegin(t)
    \/ \E t \in 1..Len(tasks) : PingReplies(t)
    \/ \E t \in 1..Len(tasks) : PingFails(t)
    \/ Phase2Return
    \/ Rank

Spec == Init /\ [][Next]_vars

\* ------------------------------------------- descriptor to text and back
\* An internet descriptor over the alphabet of the clear-net pattern is
\* written out, by get_uri or as a record of a peers file, and the text goes
\* through the ingestion of one line.
ClearProtos == {S_tcp, S_tls, S_quic, S_ws, S_wss}
AddrChars == {"h", "9", ":"}
KeyChars == {"e", "1"}
Ports == {<<"9">>, S_port}

\* The strings over chars of length lo to hi.
Strings(chars, lo, hi) == UNION { [1..n -> chars] : n \in lo..hi }

InitRoundTrip ==
    /\ pc = "descriptor"
    /\ \E proto \in ClearProtos, addr \in Strings(AddrChars, 1, MaxAddrLen),
          port \in Ports, key \in Strings(KeyChars, 0, MaxKeyLen) :
          heap = <<Peer(proto, addr, port, key, S_internet, None)>>
    /\ peer_list = <<>>
    /\ p = Unbound
    /\ skipFile = FALSE
    /\ text = <<>>
    /\ endpoints = NoList
    /\ curr = 1
    /\ inflight = {}
    /\ ret = NoRet
    /\ log = <<>>
    /\ exc = NoExc
    /\ results = <<>>
    /\ tasks = <<>>
    /\ updated_peers = NoList
    /\ ranked = NoList

\* The canonical URI of the descriptor, without or with its key.
FormatUri ==
    /\ pc = "descriptor"
    /\ \E key \in BOOLEAN : text' = get_uri(heap[1], key)
    /\ pc' = "line"
    /\ UNCHANGED <<exc, heap, peer_list, p, skipFile, endpoints, sweepVars,
                   pingVars, ranked>>

\* <protocol>://<address>:<port>, followed by ?key=<hex> when suffix holds.
RecordText(peer, suffix) ==
    peer.proto \o <<":", "/", "/">> \o peer.addr \o <<":">> \o peer.port
        \o (IF suffix THEN S_keysuffix \o peer.key ELSE <<>>)

\* A line of a peers file that holds one clear-net record, made of the
\* descriptor's protocol, address, port and key.
WriteRecord ==
    /\ pc = "descriptor"
    /\ \E suffix \in BOOLEAN : text' = RecordText(heap[1], suffix)
    /\ pc' = "line"
    /\ UNCHANGED <<exc, heap, peer_list, p, skipFile, endpoints, sweepVars,
                   pingVars, ranked>>

\* The body of "for line in f" on the text: findall, then a Peer for each
\* match.
IngestText ==
    /\ pc = "line"
    /\ LET st == ProcessMatches(FindAllFrom(text, 1), 1,
                      [heap |-> heap, list |-> peer_list, p |-> p,
                       raised |-> FALSE])
       IN  /\ heap' = st.heap
           /\ peer_list' = st.list
           /\ p' = st.p
           /\ skipFile' = st.raised
    /\ pc' = "parsed"
    /\ UNCHANGED <<exc, text, endpoints, sweepVars, pingVars, ranked>>

NextRoundTrip ==
    \/ FormatUri
    \/ WriteRecord
    \/ IngestText

SpecRoundTrip == InitRoundTrip /\ [][NextRoundTrip]_vars

\* ---------------------------------------------------------------- properties
Range(s) == { s[i] : i \in 1..Len(s) }

\* The positions whose probe has returned.
Concluded == { log[k].idx : k \in 1..Len(log) }

\* C1: in phase 1 at most one probe is in flight, it is the probe of the
\* descriptor the loop took last, and the probe of every earlier descriptor
\* has returned before it was started.
C1_PhaseOneSequential ==
    /\ Cardinality(inflight) <= 1
    /\ \A pr \in inflight :
          /\ pr.idx = curr - 1
          /\ \A i \in 1..(pr.idx - 1) : i \in Concluded

C1_Witness ==
    \E pr \in inflight : pr.idx = 2 /\ 1 \in Concluded

\* C2: whatever the probes' outcomes, the sweep processes every descriptor
\* and the ranked output holds exactly the descriptors whose probe succeeded.
C2_SweepProcessesAll ==
    (pc \in {"done", "raised"} /\ endpoints # NoList) =>
        /\ pc = "done"
        /\ Concluded = 1..Len(endpoints)
        /\ Range(ranked) = { log[k].obj : k \in { j \in 1..Len(log) : log[j].success } }

\* C3: no exception leaves a protocol probe.
C3_ProbesNeverRaise ==
    exc.from \notin {"_test_tcp_sync", "_test_tls_sync", "_test_websocket_async",
                     "_test_quic_async", "_test_hidden_service"}

\* C4: a descriptor that is not alive keeps its initial pingLatencyMs (-1)
\* through phase 2 and ranking, and no ping task is made for it.
C4_DeadPeersUntouched ==
    /\ \A o \in 1..Len(heap) :
          ~heap[o].is_alive => heap[o].ping_latency = -1
    /\ \A t \in 1..Len(tasks) : heap[tasks[t].obj].is_alive

C4_Witness ==
    /\ pc = "done"
    /\ \E o \in Range(endpoints) : ~heap[o].is_alive
    /\ \E o \in Range(ranked) : heap[o].ping_latency # -1

\* C5: once phase 2 has completed, every surviving descriptor whose network is
\* not internet has pingLatencyMs 60000, and its ping tasks made no attempt.
C5_OverlayPingSentinel ==
    pc \in {"returned", "done"} =>
        \A t \in 1..Len(tasks) :
            heap[tasks[t].obj].network # S_internet =>
                /\ heap[tasks[t].obj].ping_latency = 60000
                /\ tasks[t].attempts = <<>>

C5_Witness ==
    /\ pc = "done"
    /\ \E t \in 1..Len(tasks) :
          /\ heap[tasks[t].obj].network \notin {S_internet, S_onion, S_b32i2p}
          /\ heap[tasks[t].obj].is_alive
    /\ \E t \in 1..Len(tasks) : heap[tasks[t].obj].network = S_onion

\* C6: a descriptor object has at most one probe or ping task working on it
\* at any time.
C6_ExclusiveOwnership ==
    /\ \A pr, qr \in inflight : pr.obj = qr.obj => pr = qr
    /\ \A t, u \in 1..Len(tasks) :
          (t # u /\ tasks[t].state = "wait" /\ tasks[u].state = "wait")
              => tasks[t].obj # tasks[u].obj
    /\ \A pr \in inflight : \A t \in 1..Len(tasks) :
          tasks[t].state = "wait" => tasks[t].obj # pr.obj

\* C7: phase 2 has one ping task per entry of the phase-1 survivor list (an
\* object that the list holds twice has two); _test_endpoints has
\* returned only when every task has finished; a task that waits for its
\* reply can go on whatever state its siblings are in.
C7_BatchCompletes ==
    /\ pc \in {"phase2", "returned", "done"} =>
          /\ Len(tasks) = Len(results)
          /\ \A t \in 1..Len(tasks) : tasks[t].obj = results[t]
    /\ pc \in {"returned", "done"} =>
          /\ \A t \in 1..Len(tasks) : tasks[t].state = "done"
          /\ Len(updated_peers) = Len(tasks)
    /\ pc = "phase2" =>
          \A t \in 1..Len(tasks) :
              tasks[t].state = "wait" =>
                  ENABLED PingReplies(t) /\ ENABLED PingFails(t)

C7_Witness ==
    /\ pc = "done"
    /\ Len(tasks) = 2
    /\ Len(tasks[1].attempts) = 2
    /\ Len(tasks[2].attempts) = 1
    /\ heap[tasks[1].obj].ping_latency = -1
    /\ heap[tasks[2].obj].ping_latency > 0

\* The second task of a batch has finished while the first still waits.
C7_WitnessAnyOrder ==
    /\ pc = "phase2"
    /\ Len(tasks) = 2
    /\ tasks[1].state = "wait"
    /\ tasks[2].state = "done"

\* C8: a descriptor whose network is not internet is probed with the
\* hidden-service probe, and only such a descriptor is.
C8_OverlayUsesHiddenProbe ==
    \A pr \in inflight :
        heap[pr.obj].network # S_internet <=> pr.kind = "hidden"

\* C9: a probe whose network call blocks runs on a worker thread, never on
\* the thread of the event loop.
C9_BlockingOffTheLoop ==
    \A pr \in inflight : pr.blocking => pr.thread = "worker"

\* One or two attempts: IPv6 first, IPv4 second and only behind a failed IPv6
\* attempt, both with the same timeout.
WsAttemptsInOrder(a) ==
    /\ Len(a) \in {1, 2}
    /\ a[1].family = 6
    /\ Len(a) = 2 =>
          /\ a[1].outcome = "fail"
          /\ a[2].family = 4
          /\ a[2].timeout = a[1].timeout
    /\ \A i \in 1..(Len(a) - 1) : a[i].outcome # "pending"

\* C10: the WebSocket probe tries IPv6 first, tries IPv4 once and with the
\* same timeout exactly when the IPv6 attempt failed, makes no third attempt,
\* and returns success with the success message iff one attempt succeeded.
C10_WsDualStack ==
    /\ \A pr \in inflight :
          pr.kind = "ws" =>
              /\ WsAttemptsInOrder(pr.attempts)
              /\ pr.attempts[Len(pr.attempts)].outcome = "pending"
    /\ ret.kind = "ws" =>
          /\ WsAttemptsInOrder(ret.attempts)
          /\ \A i \in 1..Len(ret.attempts) : ret.attempts[i].outcome # "pending"
          /\ ret.attempts[1].outcome = "fail" => Len(ret.attempts) = 2
          /\ ret.success <=>
                 \E i \in 1..Len(ret.attempts) : ret.attempts[i].outcome = "ok"
          /\ ret.success =>
                 /\ ret.message.text = "Successfully connected via"
                 /\ ret.message.detail = ""
          /\ ~ret.success => ret.message.text = "Failed connection"

C10_Witness ==
    /\ ret.kind = "ws"
    /\ ret.success
    /\ Len(ret.attempts) = 2
    /\ ret.message.via = <<"W", "S", "S">>

\* Task "task" of the batch has returned behind two failed attempts.
BothFailed(task) ==
    /\ task.state = "done"
    /\ Len(task.attempts) = 2
    /\ \A i \in 1..2 : task.attempts[i].outcome \in PingFailures

\* C11: the step by which a ping task ends behind a failed IPv6 and a failed
\* IPv4 attempt, whatever the two kinds of failure, leaves every field of
\* every descriptor as it was and raises nothing; the batch then returns and
\* hands that descriptor back, still without an exception.
C11_PingFailureLeavesPeer ==
    [][ \A t \in 1..Len(tasks) :
          /\ (pc = "phase2" /\ tasks[t].state = "wait"
                /\ BothFailed(tasks'[t])) =>
                 /\ heap' = heap
                 /\ exc' = NoExc
                 /\ pc' = "phase2"
          /\ (pc = "phase2" /\ pc' # "phase2" /\ BothFailed(tasks[t])) =>
                 /\ pc' = "returned"
                 /\ exc' = NoExc
                 /\ updated_peers'[t] = tasks[t].obj
                 /\ heap' = heap ]_vars

C11_Witness ==
    /\ pc = "done"
    /\ \E t \in 1..Len(tasks) :
          /\ BothFailed(tasks[t])
          /\ tasks[t].attempts[1].outcome = "error"
          /\ tasks[t].attempts[2].outcome = "noreply"
          /\ heap[tasks[t].obj].ping_latency = -1
          /\ heap[tasks[t].obj].is_alive = TRUE
          /\ tasks[t].obj \in Range(ranked)

\* The three failures _test_hidden_service tells apart: the proxy itself
\* cannot be reached, the proxy cannot reach the hidden service, the socket
\* timeout fires.
HiddenSubkinds == {"ProxyConnectionError", "GeneralProxyError", "timeout"}

\* C12: the hidden-service probe answers each of the three failure subkinds
\* with success = FALSE and a message text of its own; a timeout is counted
\* like the other two (a failure in the log, nothing appended to the
\* results) and differs from them in the text only.
C12_HiddenFailureMessages ==
    /\ \A pr \in inflight :
          pr.kind = "hidden" =>
              \A e1, e2 \in HiddenSubkinds :
                  e1 # e2 => FailMessage(pr, e1).text # FailMessage(pr, e2).text
    /\ (ret.kind = "hidden" /\ ret.error \in HiddenSubkinds) =>
          /\ ~ret.success
          /\ ret.message.text =
                 FailMessage([kind |-> "hidden", target |-> ret.message.target],
                             ret.error).text
          /\ log[Len(log)] = [idx |-> ret.idx, obj |-> ret.obj, success |-> FALSE]
          /\ Len(results) = Cardinality({ k \in 1..Len(log) : log[k].success })

C12_Witness ==
    /\ ret.kind = "hidden"
    /\ ret.error = "timeout"
    /\ ~ret.success
    /\ ret.message.text = "Timeout: Connection timed out"
    /\ Len(log) = 2
    /\ log[1].success

\* The five protocol probes.
ProbeNames ==
    {"_test_tcp_sync", "_test_tls_sync", "_test_websocket_async",
     "_test_quic_async", "_test_hidden_service"}

\* C13: when every probe and ping attempt returns, the run raises nothing,
\* the empty descriptor list included, and a run that ends with no survivor
\* of phase 1 returns the empty ranked sequence.
C13_RunCompletes ==
    /\ pc = "raised" => exc.from \in ProbeNames
    /\ (pc = "done" /\ results = <<>>) => ranked = <<>>

\* The sort key of the descriptor at position i of list s.
KeyAt(s, i) == heap[s[i]].ping_latency

\* The ways to rearrange the positions 1..n.
Rearrangements(n) ==
    { f \in [1..n -> 1..n] : \A i, j \in 1..n : f[i] = f[j] => i = j }

\* C14: the ranked sequence rearranges the positions of the phase-2 output,
\* is non-decreasing in ping_latency with -1 and 60000 compared like any
\* other number, keeps descriptors of equal ping_latency in the order they
\* had, and is left as it is by ranking it again.
C14_RankingSortsStably ==
    pc = "done" =>
        /\ \E f \in Rearrangements(Len(updated_peers)) :
              /\ Len(ranked) = Len(updated_peers)
              /\ \A i \in 1..Len(ranked) : ranked[i] = updated_peers[f[i]]
              /\ \A i, j \in 1..Len(ranked) :
                    (i < j /\ KeyAt(ranked, i) = KeyAt(ranked, j)) => f[i] < f[j]
        /\ \A i, j \in 1..Len(ranked) :
              i < j => KeyAt(ranked, i) <= KeyAt(ranked, j)
        /\ \A i, j \in 1..Len(ranked) :
              /\ (KeyAt(ranked, j) = -1 /\ KeyAt(ranked, i) >= 0) => j < i
              /\ (KeyAt(ranked, i) = OverlayPing
                    /\ KeyAt(ranked, j) \in 0..(OverlayPing - 1)) => j < i
        /\ SortedByPing(ranked) = ranked

C14_Witness ==
    /\ pc = "done"
    /\ Len(ranked) = 2
    /\ ranked = <<updated_peers[2], updated_peers[1]>>
    /\ KeyAt(ranked, 1) = 15
    /\ KeyAt(ranked, 2) = OverlayPing

\* The attempts of one ping task: IPv6 first, IPv4 second and only behind a
\* failed IPv6 attempt, nothing behind a reply, nothing behind IPv4.
PingAttemptsInOrder(a) ==
    /\ Len(a) \in {1, 2}
    /\ a[1].family = 6
    /\ Len(a) = 2 =>
          /\ a[1].outcome \in PingFailures
          /\ a[2].family = 4
          /\ a[2].host = a[1].host
    /\ \A i \in 1..(Len(a) - 1) : a[i].outcome \notin {"pending", "reply"}

\* The attempt a task made last.
LastAttempt(task) == task.attempts[Len(task.attempts)]

\* C16: the ping task of an internet descriptor makes an IPv6 attempt, makes
\* one IPv4 attempt exactly when the IPv6 attempt failed and no attempt
\* beyond that; the step on which an attempt is answered writes that
\* attempt's average round-trip time to ping_latency and ends the task.
C16_PingDualStack ==
    /\ [](\A t \in 1..Len(tasks) :
            heap[tasks[t].obj].network = S_internet =>
               /\ tasks[t].state = "ready" => tasks[t].attempts = <<>>
               /\ tasks[t].state = "wait" =>
                     /\ PingAttemptsInOrder(tasks[t].attempts)
                     /\ LastAttempt(tasks[t]).outcome = "pending"
               /\ tasks[t].state = "done" =>
                     /\ PingAttemptsInOrder(tasks[t].attempts)
                     /\ LastAttempt(tasks[t]).outcome # "pending"
                     /\ tasks[t].attempts[1].outcome \in PingFailures =>
                            Len(tasks[t].attempts) = 2)
    /\ [][ \A t \in 1..Len(tasks) :
             (pc = "phase2" /\ tasks[t].state = "wait"
                /\ LastAttempt(tasks'[t]).outcome = "reply") =>
                 /\ tasks'[t].state = "done"
                 /\ LastAttempt(tasks'[t]).rtt \in RttMicros
                 /\ heap'[tasks[t].obj].ping_latency =
                        LastAttempt(tasks'[t]).rtt \div 1000 ]_vars

C16_Witness ==
    \E t \in 1..Len(tasks) :
       /\ tasks[t].state = "done"
       /\ Len(tasks[t].attempts) = 2
       /\ tasks[t].attempts[1].outcome = "noreply"
       /\ tasks[t].attempts[2].outcome = "reply"
       /\ tasks[t].attempts[2].rtt = 15900
       /\ heap[tasks[t].obj].ping_latency = 15

\* C17: what phase 2 returns is the list of phase-1 survivors, entry by
\* entry and in the order phase 1 appended them, whatever the order in which
\* the ping tasks returned; survivors of equal ping_latency therefore stand
\* in the ranked output in the order phase 1 appended them.
C17_BatchKeepsOrder ==
    pc \in {"returned", "done"} =>
        /\ updated_peers = results
        /\ \A t \in 1..Len(results) :
              \E k \in 1..Len(log) :
                 /\ log[k].success
                 /\ log[k].obj = results[t]
                 /\ Cardinality({ j \in 1..k : log[j].success }) = t
        /\ pc = "done" =>
              \E f \in Rearrangements(Len(results)) :
                 /\ Len(ranked) = Len(results)
                 /\ \A i \in 1..Len(ranked) : ranked[i] = results[f[i]]
                 /\ \A i, j \in 1..Len(ranked) :
                       (i < j /\ KeyAt(ranked, i) = KeyAt(ranked, j)) => f[i] < f[j]

\* The second task returned before the first, both measured the same time.
C17_Witness ==
    /\ pc = "done"
    /\ Len(tasks) = 2
    /\ tasks[2].overtook
    /\ results[1] # results[2]
    /\ KeyAt(results, 1) = 15
    /\ KeyAt(results, 2) = 15
    /\ updated_peers = results
    /\ ranked = results

\* The objects a probe of phase 1 has returned success for.
Survivors == { log[k].obj : k \in { j \in 1..Len(log) : log[j].success } }

\* C18: is_alive holds exactly for the descriptors a probe of phase 1 has
\* returned success for; latency is -1 while is_alive is false and
\* non-negative once it is true; the return of a failed probe writes no
\* field of any descriptor; every descriptor of the ranked output is alive.
C18_AliveIffProbed ==
    /\ [](/\ \A o \in 1..Len(heap) :
                /\ heap[o].is_alive <=> o \in Survivors
                /\ ~heap[o].is_alive => heap[o].latency = -1
                /\ heap[o].is_alive => heap[o].latency >= 0
          /\ pc = "done" => \A o \in Range(ranked) : heap[o].is_alive)
    /\ [][ (Len(log') = Len(log) + 1 /\ ~log'[Len(log')].success) =>
               heap' = heap ]_vars

C18_Witness ==
    /\ pc = "done"
    /\ Len(heap) = 2
    /\ ~heap[1].is_alive
    /\ heap[1].latency = -1
    /\ \E k \in 1..Len(log) : log[k].obj = 1 /\ ~log[k].success
    /\ heap[2].is_alive
    /\ heap[2].latency = 20
    /\ ranked = <<2>>

\* C19: the SOCKS socket of a hidden-service probe is open only while the
\* probe is inside its connect call; whichever way the probe returns
\* (success, either proxy error, timeout, any other exception) the socket is
\* closed by then, and none is open once phase 1 is over.
C19_HiddenSocketClosed ==
    /\ \A pr \in inflight : pr.kind = "hidden" => pr.sock = "open"
    /\ ret.kind = "hidden" => ret.sock = "closed"
    /\ pc # "phase1" => \A pr \in inflight : pr.sock # "open"

C19_Witness ==
    /\ ret.kind = "hidden"
    /\ ret.error = "Exception"
    /\ ~ret.success
    /\ ret.sock = "closed"

\* C15: the descriptor that ingestion makes of the canonical URI of an
\* internet descriptor, written without or with the key suffix, is the only
\* one it makes of that text and has the protocol, the address and the port
\* of the original.
C15_UriRoundTrip ==
    (pc = "parsed" /\ \E key \in BOOLEAN : text = get_uri(heap[1], key)) =>
        /\ Len(peer_list) = 1
        /\ peer_list[1] # 1
        /\ heap[peer_list[1]].proto = heap[1].proto
        /\ heap[peer_list[1]].addr = heap[1].addr
        /\ heap[peer_list[1]].port = heap[1].port
        /\ heap[peer_list[1]].network = S_internet

C15_Witness ==
    /\ pc = "parsed"
    /\ heap[1].proto = S_wss
    /\ heap[1].addr = <<"h", ":", "9">>
    /\ heap[1].port = S_port
    /\ heap[1].key = <<"1", "e">>
    /\ text = get_uri(heap[1], TRUE)
    /\ Len(heap) = 2
    /\ heap[2].addr = <<"h", ":", "9">>
    /\ heap[2].port = S_port

\* C20: the descriptor ingestion makes of a clear-net record carries as key
\* the whole hex string behind "?key=", and the empty string when the record
\* has no key suffix.
C20_KeyIsWholeHex ==
    pc = "parsed" =>
        \A suffix \in BOOLEAN :
            text = RecordText(heap[1], suffix) =>
                /\ Len(peer_list) = 1
                /\ heap[peer_list[1]].key =
                       IF suffix THEN heap[1].key ELSE S_empty

\* The records of a line that match the clear-net grammar or the
\* hidden-service grammar, in order.
MatchedRecords(line) ==
    SelectSeq(line, LAMBDA r : r.shape = "clear" \/ MatchesHiddenSuffix(r.suffix))

\* The descriptor that belongs to a matched record.
DescriptorOf(r) == IF r.shape = "clear" THEN ClearPeer(r) ELSE HiddenPeer(r)

\* C21: reading a line appends one newly created descriptor for each record
\* of the line that matches the clear-net or the hidden-service grammar, in
\* record order, and nothing else; no object is on the list twice.
C21_OnePeerPerRecord ==
    [][ (pc = "ingest" /\ pc' = "ingest" /\ ~skipFile) =>
           LET new == MatchedRecords(text')
           IN  /\ Len(peer_list') = Len(peer_list) + Len(new)
               /\ SubSeq(peer_list', 1, Len(peer_list)) = peer_list
               /\ \A k \in 1..Len(new) :
                     /\ peer_list'[Len(peer_list) + k] > Len(heap)
                     /\ heap'[peer_list'[Len(peer_list) + k]] = DescriptorOf(new[k])
               /\ \A i, j \in 1..Len(peer_list') :
                     i # j => peer_list'[i] # peer_list'[j] ]_vars
====
